---- MODULE Spec2Model ----
(***************************************************************************)
(* Stock correlation heatmap tool: the interactive driver (main), the      *)
(* symbol resolver and data fetcher (fetch_stock_data), the correlation    *)
(* engine and heatmap (create_correlation_heatmap) and the price charts    *)
(* (create_candlestick_charts).                                            *)
(*                                                                         *)
(* Text is modelled as sequences of one-character strings, so that         *)
(* str.split(',') and str.strip() are computed, not assumed.  Prices are   *)
(* positive integers and returns are exact fractions <<n, d>> in lowest    *)
(* terms with d > 0; <<0, 0>> stands for a missing value (NaN).            *)
(***************************************************************************)
EXTENDS Integers, Sequences, FiniteSets, TLC

VARIABLES
    pc,                 \* position of main: see PCs
    stdin,              \* "open" or "eof": whether input() can still return a line
    companies,          \* main's `companies`: the entries of the last line read
    report,             \* what the latest iteration of the input loop printed about its input
    symbols,            \* fetch_stock_data's `symbols`
    downloads,          \* number of calls of yf.download made so far
    stock_data,         \* main's `stock_data`: column name -> sequence of prices
    returns,            \* data.pct_change(): column name -> sequence of fractions
    correlation_matrix, \* main's `correlation_matrix`: <<column, column>> -> value
    panels,             \* the companies whose panel create_candlestick_charts has plotted
    out                 \* what the run has shown after the input loop, in order

vars == <<pc, stdin, companies, report, symbols, downloads, stock_data,
          returns, correlation_matrix, panels, out>>

(***************************************************************************)
(* Bounds of the model.                                                    *)
(***************************************************************************)
MaxEntries == 3     \* comma-separated entries of an input line
MaxRows == 3        \* trading days the provider returns
MaxCompanies == 2   \* length of the list handed to fetch_stock_data when called directly

PriceValues == {1, 2}

(***************************************************************************)
(* The two catalogs of the source.                                         *)
(***************************************************************************)
company_symbols ==
    [c \in {"Apple", "Microsoft", "Amazon", "Alphabet", "Meta", "Tesla", "Nvidia",
            "JPMorgan Chase", "Walmart", "ExxonMobil", "Johnson & Johnson", "Visa",
            "Mastercard", "Intel", "Coca-Cola"} |->
        CASE c = "Apple" -> "AAPL"
          [] c = "Microsoft" -> "MSFT"
          [] c = "Amazon" -> "AMZN"
          [] c = "Alphabet" -> "GOOGL"
          [] c = "Meta" -> "META"
          [] c = "Tesla" -> "TSLA"
          [] c = "Nvidia" -> "NVDA"
          [] c = "JPMorgan Chase" -> "JPM"
          [] c = "Walmart" -> "WMT"
          [] c = "ExxonMobil" -> "XOM"
          [] c = "Johnson & Johnson" -> "JNJ"
          [] c = "Visa" -> "V"
          [] c = "Mastercard" -> "MA"
          [] c = "Intel" -> "INTC"
          [] c = "Coca-Cola" -> "KO"]

available_companies ==
    <<"Apple", "Microsoft", "Amazon", "Alphabet", "Meta",
      "Tesla", "Nvidia", "JPMorgan Chase", "Walmart", "ExxonMobil",
      "Johnson & Johnson", "Visa", "Mastercard", "Intel", "Coca-Cola">>

Range(s) == {s[i] : i \in DOMAIN s}

(***************************************************************************)
(* Text: str.split(','), str.strip(), and the string a character sequence  *)
(* spells.                                                                 *)
(***************************************************************************)
Whitespace == {" ", "\t"}

RECURSIVE Str(_)
Str(cs) == IF cs = <<>> THEN "" ELSE Head(cs) \o Str(Tail(cs))

RECURSIVE LStrip(_)
LStrip(cs) ==
    IF cs # <<>> /\ Head(cs) \in Whitespace THEN LStrip(Tail(cs)) ELSE cs

RECURSIVE RStrip(_)
RStrip(cs) ==
    IF cs # <<>> /\ cs[Len(cs)] \in Whitespace
    THEN RStrip(SubSeq(cs, 1, Len(cs) - 1))
    ELSE cs

Strip(cs) == RStrip(LStrip(cs))

\* line.split(','): the fields between the commas; never an empty list
RECURSIVE SplitFrom(_, _, _)
SplitFrom(cs, i, field) ==
    IF i > Len(cs) THEN <<field>>
    ELSE IF cs[i] = "," THEN <<field>> \o SplitFrom(cs, i + 1, <<>>)
    ELSE SplitFrom(cs, i + 1, Append(field, cs[i]))

Split(cs) == SplitFrom(cs, 1, <<>>)

\* [company.strip() for company in user_input]
StripAll(user_input) == [i \in DOMAIN user_input |-> Str(Strip(user_input[i]))]

\* InvalidCompanies with each offending entry put in front of the list
RECURSIVE InvalidCompanies_Reversed(_)
InvalidCompanies_Reversed(cs) ==
    IF cs = <<>> THEN <<>>
    ELSE IF Head(cs) \notin Range(available_companies)
         THEN InvalidCompanies_Reversed(Tail(cs)) \o <<Head(cs)>>
         ELSE InvalidCompanies_Reversed(Tail(cs))

\* [c for c in companies if c not in available_companies]
RECURSIVE InvalidCompanies(_)
InvalidCompanies(cs) ==
    IF cs = <<>> THEN <<>>
    ELSE IF Head(cs) \notin Range(available_companies)
         THEN <<Head(cs)>> \o InvalidCompanies(Tail(cs))
         ELSE InvalidCompanies(Tail(cs))

(***************************************************************************)
(* The lines a user may type: one to MaxEntries entries, each a word with  *)
(* optional blanks around it, joined by commas.                            *)
(***************************************************************************)
Words ==
    { <<"A", "p", "p", "l", "e">>,
      <<"M", "i", "c", "r", "o", "s", "o", "f", "t">>,
      <<"Z", "z", "z", "z">>,
      <<>> }

Entries == Words \cup {<<" ">> \o w : w \in Words} \cup {<<" ">> \o w \o <<" ">> : w \in Words}

RECURSIVE LinesOf(_)
LinesOf(n) ==
    IF n = 1 THEN Entries
    ELSE {l \o <<",">> \o e : l \in LinesOf(n - 1), e \in Entries}

Lines == UNION {LinesOf(n) : n \in 1..MaxEntries}

\* what lines 142-143 make of each of these lines
ParsedLines == {StripAll(Split(line)) : line \in Lines}

(***************************************************************************)
(* Exact fractions.                                                        *)
(***************************************************************************)
NaN == <<0, 0>>
IsNaN(q) == q[2] = 0

Abs(x) == IF x < 0 THEN -x ELSE x

RECURSIVE GCD(_, _)
GCD(a, b) == IF b = 0 THEN a ELSE GCD(b, a % b)

\* n / d in lowest terms, d # 0
Frac(n, d) ==
    LET g == GCD(Abs(n), Abs(d))
        s == IF d < 0 THEN -1 ELSE 1
    IN  <<(s * n) \div g, (s * d) \div g>>

FAdd(a, b) == Frac(a[1] * b[2] + b[1] * a[2], a[2] * b[2])
FSub(a, b) == Frac(a[1] * b[2] - b[1] * a[2], a[2] * b[2])
FMul(a, b) == Frac(a[1] * b[1], a[2] * b[2])
FDiv(a, b) == Frac(a[1] * b[2], a[2] * b[1])

\* the sum of f[t] over the rows t in S
RECURSIVE FSum(_, _)
FSum(f, S) ==
    IF S = {} THEN <<0, 1>>
    ELSE LET t == CHOOSE x \in S : TRUE IN FAdd(f[t], FSum(f, S \ {t}))

(***************************************************************************)
(* The correlation engine: data.pct_change().corr()                        *)
(***************************************************************************)
\* pct_change dividing by the current price instead of the previous one
pct_change_ByCurrent(col) ==
    [t \in DOMAIN col |->
        IF t = 1 THEN NaN ELSE FSub(<<1, 1>>, Frac(col[t - 1], col[t]))]

\* Series.pct_change(): price / previous price - 1; the first row has no
\* previous price
pct_change(col) ==
    [t \in DOMAIN col |->
        IF t = 1 THEN NaN ELSE FSub(Frac(col[t], col[t - 1]), <<1, 1>>)]

\* A correlation value is <<sign, n, d>>: the sign of r and r * r = n / d;
\* <<0, 0, 0>> is a missing value.
NoCorr == <<0, 0, 0>>

\* Corr normalised by the first column alone (the slope of y on x)
Corr_BySlope(x, y) ==
    LET rows == {t \in DOMAIN x : ~IsNaN(x[t]) /\ ~IsNaN(y[t])}
        nobs == Cardinality(rows)
    IN  IF nobs < 1 THEN NoCorr
        ELSE
        LET n1 == <<nobs, 1>>
            sx == FSum(x, rows)
            sy == FSum(y, rows)
            sxx == FSum([t \in rows |-> FMul(x[t], x[t])], rows)
            syy == FSum([t \in rows |-> FMul(y[t], y[t])], rows)
            sxy == FSum([t \in rows |-> FMul(x[t], y[t])], rows)
            \* sums of squared deviations from the mean, and of their products
            ssqdx == FSub(sxx, FDiv(FMul(sx, sx), n1))
            ssqdy == FSub(syy, FDiv(FMul(sy, sy), n1))
            covxy == FSub(sxy, FDiv(FMul(sx, sy), n1))
            prod == FMul(ssqdx, ssqdx)
        IN  IF (nobs - 1) * prod[1] * ssqdy[1] = 0 THEN NoCorr
            ELSE LET sq == FDiv(FMul(covxy, covxy), prod)
                     sign == IF covxy[1] > 0 THEN 1 ELSE IF covxy[1] < 0 THEN -1 ELSE 0
                 IN  <<sign, sq[1], sq[2]>>

\* Pearson correlation of two columns over the rows where both have a value
Corr(x, y) ==
    LET rows == {t \in DOMAIN x : ~IsNaN(x[t]) /\ ~IsNaN(y[t])}
        nobs == Cardinality(rows)
    IN  IF nobs < 1 THEN NoCorr
        ELSE
        LET n1 == <<nobs, 1>>
            sx == FSum(x, rows)
            sy == FSum(y, rows)
            sxx == FSum([t \in rows |-> FMul(x[t], x[t])], rows)
            syy == FSum([t \in rows |-> FMul(y[t], y[t])], rows)
            sxy == FSum([t \in rows |-> FMul(x[t], y[t])], rows)
            \* sums of squared deviations from the mean, and of their products
            ssqdx == FSub(sxx, FDiv(FMul(sx, sx), n1))
            ssqdy == FSub(syy, FDiv(FMul(sy, sy), n1))
            covxy == FSub(sxy, FDiv(FMul(sx, sy), n1))
            prod == FMul(ssqdx, ssqdy)
        IN  IF (nobs - 1) * prod[1] = 0 THEN NoCorr
            ELSE LET sq == FDiv(FMul(covxy, covxy), prod)
                     sign == IF covxy[1] > 0 THEN 1 ELSE IF covxy[1] < 0 THEN -1 ELSE 0
                 IN  <<sign, sq[1], sq[2]>>

\* DataFrame.pct_change(): column by column
PctChangeTable(data) == [c \in DOMAIN data |-> pct_change(data[c])]

\* DataFrame.corr(): every pair of columns
CorrTable(rets) ==
    [p \in (DOMAIN rets) \X (DOMAIN rets) |-> Corr(rets[p[1]], rets[p[2]])]

(***************************************************************************)
(* fetch_stock_data                                                        *)
(***************************************************************************)
\* Resolve without the default: company_symbols.get(company)
Resolve_NoDefault(company) ==
    IF company \in DOMAIN company_symbols THEN company_symbols[company] ELSE "None"

\* company_symbols.get(company, company)
Resolve(company) ==
    IF company \in DOMAIN company_symbols THEN company_symbols[company] ELSE company

\* The tables yf.download(symbols, ...)['Adj Close'] may return: one column
\* per distinct symbol asked for, one row per trading day, possibly no row.
ProviderTables(syms) ==
    UNION {[Range(syms) -> [1..n -> PriceValues]] : n \in 0..MaxRows}

NoReport == [kind |-> "none", list |-> <<>>]
NoTable == [c \in {} |-> <<>>]
NoMatrix == [p \in {} |-> NoCorr]

PCs == {"AwaitingInput", "Fetching", "Downloading", "Heatmap", "PrintMatrix",
        "Charts", "Done", "ReportAndExit"}

Init ==
    /\ pc = "AwaitingInput"
    /\ stdin = "open"
    /\ companies = <<>>
    /\ report = NoReport
    /\ symbols = <<>>
    /\ downloads = 0
    /\ stock_data = NoTable
    /\ returns = NoTable
    /\ correlation_matrix = NoMatrix
    /\ panels = <<>>
    /\ out = <<>>

(***************************************************************************)
(* The input loop of main, one action per way an iteration can end.        *)
(***************************************************************************)
\* InputTooFew giving up instead of prompting again
InputTooFew_GiveUp ==
    /\ pc = "AwaitingInput"
    /\ stdin = "open"
    /\ \E cs \in ParsedLines :
           /\ Len(cs) < 2
           /\ companies' = cs
           /\ report' = [kind |-> "at least 2", list |-> <<>>]
    /\ pc' = "ReportAndExit"
    /\ UNCHANGED <<stdin, symbols, downloads, stock_data, returns,
                   correlation_matrix, panels, out>>

\* len(companies) < 2: "Please enter at least 2 companies."; continue
InputTooFew ==
    /\ pc = "AwaitingInput"
    /\ stdin = "open"
    /\ \E cs \in ParsedLines :
           /\ Len(cs) < 2
           /\ companies' = cs
           /\ report' = [kind |-> "at least 2", list |-> <<>>]
    /\ pc' = "AwaitingInput"
    /\ UNCHANGED <<stdin, symbols, downloads, stock_data, returns,
                   correlation_matrix, panels, out>>

\* InputInvalid without the `continue` of line 154
InputInvalid_NoContinue ==
    /\ pc = "AwaitingInput"
    /\ stdin = "open"
    /\ \E cs \in ParsedLines :
           /\ ~(Len(cs) < 2)
           /\ InvalidCompanies(cs) # <<>>
           /\ companies' = cs
           /\ report' = [kind |-> "invalid", list |-> InvalidCompanies(cs)]
    /\ pc' = "Fetching"
    /\ UNCHANGED <<stdin, symbols, downloads, stock_data, returns,
                   correlation_matrix, panels, out>>

\* invalid_companies not empty: "Invalid companies: [...]"; continue
InputInvalid ==
    /\ pc = "AwaitingInput"
    /\ stdin = "open"
    /\ \E cs \in ParsedLines :
           /\ ~(Len(cs) < 2)
           /\ InvalidCompanies(cs) # <<>>
           /\ companies' = cs
           /\ report' = [kind |-> "invalid", list |-> InvalidCompanies(cs)]
    /\ pc' = "AwaitingInput"
    /\ UNCHANGED <<stdin, symbols, downloads, stock_data, returns,
                   correlation_matrix, panels, out>>

\* both checks pass: break
InputValid ==
    /\ pc = "AwaitingInput"
    /\ stdin = "open"
    /\ \E cs \in ParsedLines :
           /\ ~(Len(cs) < 2)
           /\ InvalidCompanies(cs) = <<>>
           /\ companies' = cs
    /\ report' = NoReport
    /\ pc' = "Fetching"
    /\ UNCHANGED <<stdin, symbols, downloads, stock_data, returns,
                   correlation_matrix, panels, out>>

\* InputRaises with the exception escaping the loop
InputRaises_Uncaught ==
    /\ pc = "AwaitingInput"
    /\ \E e \in {"EOFError", "UnicodeDecodeError"} :
         /\ stdin = "eof" => e = "EOFError"
         /\ stdin' = IF e = "EOFError" THEN "eof" ELSE stdin
         /\ report' = [kind |-> "error", list |-> <<e>>]
    /\ pc' = "ReportAndExit"
    /\ UNCHANGED <<companies, symbols, downloads, stock_data, returns,
                   correlation_matrix, panels, out>>

\* input() raises: EOFError once standard input is exhausted (and from then
\* on), or an error decoding the line; `except Exception` prints it and the
\* loop goes round again.  `companies` keeps its previous value.
InputRaises ==
    /\ pc = "AwaitingInput"
    /\ \E e \in {"EOFError", "UnicodeDecodeError"} :
         /\ stdin = "eof" => e = "EOFError"
         /\ stdin' = IF e = "EOFError" THEN "eof" ELSE stdin
         /\ report' = [kind |-> "error", list |-> <<e>>]
    /\ pc' = "AwaitingInput"
    /\ UNCHANGED <<companies, symbols, downloads, stock_data, returns,
                   correlation_matrix, panels, out>>

(***************************************************************************)
(* main after the input loop: the body of the second try.                  *)
(***************************************************************************)
\* line 39: symbols = [company_symbols.get(company, company) for ...]
ResolveSymbols ==
    /\ pc = "Fetching"
    /\ symbols' = [i \in DOMAIN companies |-> Resolve(companies[i])]
    /\ pc' = "Downloading"
    /\ UNCHANGED <<stdin, companies, report, downloads, stock_data, returns,
                   correlation_matrix, panels, out>>

\* line 42: yf.download returns a table; fetch_stock_data returns it as it is
DownloadReturns ==
    /\ pc = "Downloading"
    /\ downloads' = downloads + 1
    /\ \E table \in ProviderTables(symbols) : stock_data' = table
    /\ pc' = "Heatmap"
    /\ UNCHANGED <<stdin, companies, report, symbols, returns,
                   correlation_matrix, panels, out>>

\* DownloadRaises with the download tried again
DownloadRaises_Retry ==
    /\ pc = "Downloading"
    /\ downloads' = downloads + 1
    /\ out' = Append(out, "error")
    /\ pc' = "Downloading"
    /\ UNCHANGED <<stdin, companies, report, symbols, stock_data, returns,
                   correlation_matrix, panels>>

\* line 42 raises (network or provider error, no 'Adj Close'): line 176
\* catches it, line 177 prints it and main ends
DownloadRaises ==
    /\ pc = "Downloading"
    /\ downloads' = downloads + 1
    /\ out' = Append(out, "error")
    /\ pc' = "ReportAndExit"
    /\ UNCHANGED <<stdin, companies, report, symbols, stock_data, returns,
                   correlation_matrix, panels>>

\* lines 165-166: create_correlation_heatmap(stock_data); plt.show()
CreateCorrelationHeatmap ==
    /\ pc = "Heatmap"
    /\ returns' = PctChangeTable(stock_data)
    /\ correlation_matrix' = CorrTable(PctChangeTable(stock_data))
    /\ out' = Append(out, "heatmap")
    /\ pc' = "PrintMatrix"
    /\ UNCHANGED <<stdin, companies, report, symbols, downloads, stock_data, panels>>

\* lines 169-170: print(correlation_matrix)
PrintMatrix ==
    /\ pc = "PrintMatrix"
    /\ out' = Append(out, "matrix")
    /\ pc' = "Charts"
    /\ UNCHANGED <<stdin, companies, report, symbols, downloads, stock_data,
                   returns, correlation_matrix, panels>>

\* The panels the loop of lines 88-122 plots before data[company] raises
\* KeyError, or all of them.
RECURSIVE Plotted(_, _)
Plotted(data, cs) ==
    IF cs = <<>> \/ Head(cs) \notin DOMAIN data THEN <<>>
    ELSE <<Head(cs)>> \o Plotted(data, Tail(cs))

\* lines 173-174: create_candlestick_charts(stock_data, companies); plt.show().
\* A KeyError of line 90 is caught at line 176 and printed at line 177.
CreateCandlestickCharts ==
    /\ pc = "Charts"
    /\ panels' = Plotted(stock_data, companies)
    /\ IF Plotted(stock_data, companies) = companies
       THEN /\ out' = Append(out, "charts")
            /\ pc' = "Done"
       ELSE /\ out' = Append(out, "error")
            /\ pc' = "ReportAndExit"
    /\ UNCHANGED <<stdin, companies, report, symbols, downloads, stock_data,
                   returns, correlation_matrix>>

Next ==
    \/ InputTooFew \/ InputInvalid \/ InputValid \/ InputRaises
    \/ ResolveSymbols \/ DownloadReturns \/ DownloadRaises
    \/ CreateCorrelationHeatmap \/ PrintMatrix \/ CreateCandlestickCharts

Spec == Init /\ [][Next]_vars

\* a statement of the second try of main
AfterInput ==
    \/ ResolveSymbols \/ DownloadReturns \/ DownloadRaises
    \/ CreateCorrelationHeatmap \/ PrintMatrix \/ CreateCandlestickCharts

(***************************************************************************)
(* fetch_stock_data's resolver called with any list of names or symbols.   *)
(***************************************************************************)
ResolverInputs == DOMAIN company_symbols \cup {"FAKE", "AAPL", "apple", ""}

InitResolver ==
    /\ pc = "Fetching"
    /\ stdin = "open"
    /\ companies \in UNION {[1..n -> ResolverInputs] : n \in 1..MaxCompanies}
    /\ report = NoReport
    /\ symbols = <<>>
    /\ downloads = 0
    /\ stock_data = NoTable
    /\ returns = NoTable
    /\ correlation_matrix = NoMatrix
    /\ panels = <<>>
    /\ out = <<>>

SpecResolver == InitResolver /\ [][ResolveSymbols]_vars

(***************************************************************************)
(* Properties.                                                             *)
(***************************************************************************)
Catalog == DOMAIN company_symbols

ValidSelection(cs) == Len(cs) >= 2 /\ \A i \in DOMAIN cs : cs[i] \in Catalog

Terminated == pc \in {"Done", "ReportAndExit"}

\* the provider handed back a table
TableReturned == stock_data # NoTable

\* the provider handed back a table that has rows
FetchSucceeded == TableReturned /\ \A c \in DOMAIN stock_data : Len(stock_data[c]) > 0

\* the provider raised, or handed back an empty result
FetchFailed ==
    /\ downloads > 0
    /\ \/ ~TableReturned
       \/ \A c \in DOMAIN stock_data : Len(stock_data[c]) = 0

\* C1: the fetcher is only ever invoked with a selection of at least 2
\* entries, all of them catalog names; an input with fewer than 2 entries or
\* with an entry outside the catalog leaves the driver in AwaitingInput with
\* no fetch made.
C1_FetchOnlyValidSelection ==
    /\ [](pc # "AwaitingInput" => ValidSelection(companies))
    /\ [][(pc = "AwaitingInput" /\ ~ValidSelection(companies'))
            => (pc' = "AwaitingInput" /\ downloads' = 0 /\ symbols' = <<>>)]_vars

C1_Witness ==
    /\ pc = "Downloading"
    /\ companies = <<"Apple", "Microsoft", "Apple">>
    /\ symbols = <<"AAPL", "MSFT", "AAPL">>

\* C2: when the fetch succeeds, the run ends having shown the heatmap, then
\* the matrix, then the price charts, with one panel per selected company.
C2_RendersHeatmapMatrixCharts ==
    (Terminated /\ FetchSucceeded)
        => (out = <<"heatmap", "matrix", "charts">> /\ panels = companies /\ pc = "Done")

\* C3: when the fetch fails (the provider raises or the result is empty), no
\* heatmap, matrix or chart is ever shown, and the run ends with the failure
\* reported.
C3_NothingRenderedOnFetchFailure ==
    FetchFailed =>
        /\ \A i \in DOMAIN out : out[i] \notin {"heatmap", "matrix", "charts"}
        /\ Terminated => out = <<"error">>

\* the 15 pairs of the company catalog
CatalogPairs ==
    { <<"Apple", "AAPL">>, <<"Microsoft", "MSFT">>, <<"Amazon", "AMZN">>,
      <<"Alphabet", "GOOGL">>, <<"Meta", "META">>, <<"Tesla", "TSLA">>,
      <<"Nvidia", "NVDA">>, <<"JPMorgan Chase", "JPM">>, <<"Walmart", "WMT">>,
      <<"ExxonMobil", "XOM">>, <<"Johnson & Johnson", "JNJ">>, <<"Visa", "V">>,
      <<"Mastercard", "MA">>, <<"Intel", "INTC">>, <<"Coca-Cola", "KO">> }

Expected(name) ==
    IF \E p \in CatalogPairs : p[1] = name
    THEN (CHOOSE p \in CatalogPairs : p[1] = name)[2]
    ELSE name

\* C4: the resolver maps each of the 15 catalog names to its ticker and
\* every other string to itself; it yields a symbol for every entry and
\* changes nothing but `symbols`.
C4_ResolverMapsCatalogElseIdentity ==
    /\ [](pc = "Downloading" =>
            /\ Cardinality(CatalogPairs) = 15
            /\ Len(symbols) = Len(companies)
            /\ \A i \in DOMAIN companies : symbols[i] = Expected(companies[i]))
    /\ [][pc = "Fetching" =>
            UNCHANGED <<stdin, companies, report, downloads, stock_data, returns,
                        correlation_matrix, panels, out>>]_vars

C4_Witness ==
    /\ pc = "Downloading"
    /\ companies = <<"Apple", "FAKE">>
    /\ symbols = <<"AAPL", "FAKE">>

MatrixProduced == pc \in {"PrintMatrix", "Charts", "Done", "ReportAndExit"} /\ TableReturned

\* the returns of column c take at least two different values
NonzeroVariance(c) ==
    \E t, u \in DOMAIN returns[c] :
        /\ ~IsNaN(returns[c][t]) /\ ~IsNaN(returns[c][u])
        /\ returns[c][t] # returns[c][u]

\* C5: the correlation matrix is square over as many columns as there are
\* distinct selected companies, symmetric, and 1 on the diagonal for every
\* column whose returns have nonzero variance.
C5_MatrixSquareSymmetricUnitDiagonal ==
    MatrixProduced =>
        \E cols \in SUBSET Range(symbols) :
            /\ Cardinality(cols) = Cardinality(Range(companies))
            /\ DOMAIN correlation_matrix = cols \X cols
            /\ \A a, b \in cols :
                   correlation_matrix[<<a, b>>] = correlation_matrix[<<b, a>>]
            /\ \A a \in cols :
                   NonzeroVariance(a) => correlation_matrix[<<a, a>>] = <<1, 1, 1>>

C5_Witness ==
    /\ pc = "PrintMatrix"
    /\ companies = <<"Apple", "Apple", "Microsoft">>
    /\ NonzeroVariance("AAPL") /\ NonzeroVariance("MSFT")
    /\ correlation_matrix[<<"AAPL", "MSFT">>] = <<-1, 1, 1>>

\* C6: every column of the returns table is undefined in row 0 and holds
\* (price[t] - price[t-1]) / price[t-1] in every later row t; prices
\* 100, 110, 99 give undefined, 1/10, -1/10.
C6_ReturnsAreFractionalChange ==
    /\ pct_change(<<100, 110, 99>>) = <<NaN, <<1, 10>>, <<-1, 10>>>>
    /\ MatrixProduced =>
        /\ DOMAIN returns = DOMAIN stock_data
        /\ \A c \in DOMAIN stock_data :
            /\ DOMAIN returns[c] = DOMAIN stock_data[c]
            /\ \A t \in DOMAIN stock_data[c] :
                 IF t = 1 THEN IsNaN(returns[c][t])
                 ELSE /\ returns[c][t][2] > 0
                      /\ returns[c][t][1] * stock_data[c][t - 1]
                           = returns[c][t][2] * (stock_data[c][t] - stock_data[c][t - 1])

C6_Witness ==
    /\ pc = "PrintMatrix"
    /\ DOMAIN stock_data = {"AAPL", "MSFT"}
    /\ stock_data["AAPL"] = <<2, 1, 2>>
    /\ returns["AAPL"] = <<NaN, <<-1, 2>>, <<1, 1>>>>
    /\ stock_data["MSFT"] = <<1, 1, 2>>
    /\ returns["MSFT"] = <<NaN, <<0, 1>>, <<1, 1>>>>

\* C7: the provider is called at most once in a run, and once the input
\* loop is left the run never goes back to AwaitingInput.
C7_AtMostOneDownloadNoRetry ==
    /\ [](downloads <= 1)
    /\ [][(pc # "AwaitingInput" => pc' # "AwaitingInput")
            /\ (downloads > 0 => pc' \notin {"Fetching", "Downloading"})]_vars

C7_Witness ==
    /\ pc = "ReportAndExit"
    /\ downloads = 1
    /\ ~TableReturned
    /\ out = <<"error">>

\* `list` is `cs` with the entries of the catalog taken out, order kept
IsOffendingList(list, cs) ==
    LET bad == {i \in DOMAIN cs : cs[i] \notin Catalog} IN
    /\ Len(list) = Cardinality(bad)
    /\ \A k \in DOMAIN list :
         \E i \in bad : list[k] = cs[i] /\ Cardinality({j \in bad : j < i}) = k - 1

\* C8: every rejection is reported with its cause: fewer than 2 entries gets
\* the "at least 2" message; otherwise the report lists exactly the entries
\* that are not in the catalog, in input order.
C8_RejectionReportedWithCause ==
    [][(pc = "AwaitingInput" /\ pc' = "AwaitingInput" /\ report'.kind # "error")
        => IF Len(companies') < 2
           THEN report' = [kind |-> "at least 2", list |-> <<>>]
           ELSE /\ report'.kind = "invalid"
                /\ report'.list # <<>>
                /\ IsOffendingList(report'.list, companies')]_vars

C8_Witness ==
    /\ pc = "AwaitingInput"
    /\ companies = <<"Zzzz", "Apple", "">>
    /\ report = [kind |-> "invalid", list |-> <<"Zzzz", "">>]

\* how far main has come
Rank(p) ==
    CASE p = "AwaitingInput" -> 0
      [] p = "Fetching" -> 1
      [] p = "Downloading" -> 2
      [] p = "Heatmap" -> 3
      [] p = "PrintMatrix" -> 4
      [] p = "Charts" -> 5
      [] p \in {"Done", "ReportAndExit"} -> 6

\* C9: a rejected input always leaves the driver in AwaitingInput, where a
\* valid input is still accepted however many were rejected; the loop is left
\* only by a valid input, to Fetching; and from Fetching the run always ends:
\* until it has ended a next statement can always run, and every statement
\* moves main strictly forward.
C9_LoopUntilValidThenTerminates ==
    /\ []((pc = "AwaitingInput" /\ stdin = "open") => ENABLED InputValid)
    /\ [][pc = "AwaitingInput" =>
            IF ValidSelection(companies')
            THEN pc' = "Fetching"
            ELSE pc' = "AwaitingInput"]_vars
    /\ []((pc # "AwaitingInput" /\ ~Terminated) => ENABLED AfterInput)
    /\ [][pc # "AwaitingInput" => Rank(pc') > Rank(pc)]_vars

C9_Witness ==
    /\ pc = "AwaitingInput"
    /\ stdin = "open"
    /\ report.kind = "at least 2"
    /\ companies = <<"Apple">>
    /\ ENABLED InputValid

\* C10: an exception raised by input() is reported and leaves the driver in
\* AwaitingInput with no fetch made; once standard input is exhausted the
\* driver stays in AwaitingInput for ever, prompting again each time.
C10_InputErrorKeepsLooping ==
    /\ [][(pc = "AwaitingInput" /\ report' # report /\ report'.kind = "error")
            => (pc' = "AwaitingInput" /\ downloads' = 0)]_vars
    /\ [][stdin' = "eof" =>
            (pc' = "AwaitingInput" /\ report'.kind = "error" /\ downloads' = 0)]_vars
    /\ [](stdin = "eof" => (pc = "AwaitingInput" /\ ENABLED InputRaises))

C10_Witness ==
    /\ stdin = "eof"
    /\ pc = "AwaitingInput"
    /\ report = [kind |-> "error", list |-> <<"EOFError">>]
    /\ companies = <<"Apple", "Zzzz">>
====
